---- MODULE Spec2Model ----
(***************************************************************************)
(* Model of skills/public/command-verification/scripts/add_command.py:     *)
(* the registry file, load_registry, save_registry, add_command,           *)
(* interactive_add and main.                                               *)
(*                                                                         *)
(* A Python dict is a TLA+ function (a record when its keys are fixed).    *)
(* The registry file is a sequence of chunks of JSON text, so that an      *)
(* empty, truncated or overwritten file is a value the loader has to       *)
(* parse, and json.dump / json.load are a real round trip.                 *)
(***************************************************************************)
EXTENDS Integers, Sequences, FiniteSets, TLC

\* Bound: the number of invocations (calls of add_command or runs of main)
\* in one behaviour of the sequential specification.
MaxCalls == 3

(***************************************************************************)
(* Input alphabets                                                         *)
(***************************************************************************)
Names == {"ls", "rm"}
Descriptions == {"d1"}
Permissions == {"AlwaysAllow", "AlwaysAsk", "Sometimes"}
RiskLevels == {"low", "medium", "high", "critical", "extreme"}
Reasons == {"r1"}

(***************************************************************************)
(* Module constants                                                        *)
(***************************************************************************)
RISK_COLORS_YellowCritical ==
    [low |-> "green", medium |-> "yellow", high |-> "red", critical |-> "yellow"]

RISK_COLORS ==
    [low |-> "green", medium |-> "yellow", high |-> "red", critical |-> "red"]

\* RISK_COLORS.get(risk_level, "yellow")
RiskColor(risk_level) ==
    IF risk_level \in DOMAIN RISK_COLORS THEN RISK_COLORS[risk_level] ELSE "yellow"

\* The dict load_registry returns when the file is missing or is not JSON.
DefaultRegistry ==
    [version |-> "1.0.0",
     description |-> "Registry of known commands",
     commands |-> << >>]

(***************************************************************************)
(* Dicts                                                                   *)
(***************************************************************************)
\* d[k] = v on a dict
DictSet(d, k, v) == [x \in (DOMAIN d) \cup {k} |-> IF x = k THEN v ELSE d[x]]

\* d.get(k, default)
DictGet(d, k, default) == IF k \in DOMAIN d THEN d[k] ELSE default

(***************************************************************************)
(* The registry file and its JSON text                                     *)
(***************************************************************************)
LBrace == [t |-> "{"]
RBrace == [t |-> "}"]
Member(k, v) == [t |-> "member", key |-> k, value |-> v]
\* text that is not JSON at all
Garbage == [t |-> "garbage"]
\* a complete JSON document that is not an object: []
ArrayText == [t |-> "[]"]
\* bytes that are not text in the encoding open(path, "r") decodes with
BadBytes == [t |-> "badbytes"]

Missing == [exists |-> FALSE, text |-> << >>]
FileOf(text) == [exists |-> TRUE, text |-> text]

\* The order json.dump writes the top-level keys in.
KeyOrder == <<"version", "description", "commands">>

RECURSIVE DumpMembers(_, _)
DumpMembers(registry, i) ==
    IF i > Len(KeyOrder) THEN << >>
    ELSE (IF KeyOrder[i] \in DOMAIN registry
          THEN <<Member(KeyOrder[i], registry[KeyOrder[i]])>>
          ELSE << >>) \o DumpMembers(registry, i + 1)

\* json.dump(registry, f, indent=2): the text of a dict
json_dump(registry) == <<LBrace>> \o DumpMembers(registry, 1) \o <<RBrace>>

\* The longest text json_dump produces, in chunks.
MaxText == Len(KeyOrder) + 2

IsObjectText(text) ==
    /\ Len(text) >= 2
    /\ text[1] = LBrace
    /\ text[Len(text)] = RBrace
    /\ \A i \in 2..(Len(text) - 1) : text[i].t = "member"

ObjectOf(text) ==
    LET idx == 2..(Len(text) - 1)
        keys == {text[i].key : i \in idx}
        \* a repeated key keeps its last value
        last(k) == CHOOSE i \in idx :
                      /\ text[i].key = k
                      /\ \A j \in idx : text[j].key = k => j <= i
    IN [k \in keys |-> text[last(k)].value]

\* json.load(f): the value, or the exception it raises
json_load(text) ==
    IF \E i \in 1..Len(text) : text[i].t = "badbytes"
    THEN [exc |-> "UnicodeDecodeError"]
    ELSE IF text = <<ArrayText>> THEN [type |-> "list", value |-> << >>]
    ELSE IF IsObjectText(text) THEN [type |-> "dict", value |-> ObjectOf(text)]
    ELSE [exc |-> "JSONDecodeError"]

Loaded(registry) == [type |-> "dict", value |-> registry]

\* load_registry(path): what it returns, or the exception that escapes it
load_registry(f) ==
    IF ~f.exists THEN Loaded(DefaultRegistry)
    ELSE LET r == json_load(f.text)
         IN IF "exc" \in DOMAIN r /\ r.exc = "JSONDecodeError"
            THEN Loaded(DefaultRegistry)
            ELSE r

(***************************************************************************)
(* save_registry                                                           *)
(***************************************************************************)
\* What the file system does to one save: the open succeeds or fails, and a
\* write that fails leaves the first `written` chunks in the truncated file.
IOs ==
    {[kind |-> "ok", written |-> 0], [kind |-> "open_fail", written |-> 0]}
    \cup {[kind |-> "write_fail", written |-> k] : k \in 0..(MaxText - 1)}

Min(a, b) == IF a < b THEN a ELSE b

\* save_registry(registry, path): its return value and the file afterwards
save_registry(registry, f, io) ==
    LET text == json_dump(registry)
    IN CASE io.kind = "open_fail" -> [ok |-> FALSE, file |-> f]
         [] io.kind = "write_fail" ->
              [ok |-> FALSE,
               file |-> FileOf(SubSeq(text, 1, Min(io.written, Len(text) - 1)))]
         [] OTHER -> [ok |-> TRUE, file |-> FileOf(text)]

(***************************************************************************)
(* add_command                                                             *)
(***************************************************************************)
ValidPermission_Any(permission) == TRUE

ValidPermission(permission) == permission \in {"AlwaysAllow", "AlwaysAsk"}

ValidRiskLevel(risk_level) == risk_level \in {"low", "medium", "high", "critical"}

AlreadyExists_Never(name, registry) == FALSE

\* name in registry.get("commands", {})
AlreadyExists(name, registry) == name \in DOMAIN DictGet(registry, "commands", << >>)

command_entry_Swapped(name, description, permission, risk_level, risk_reason) ==
    [name |-> name,
     description |-> risk_reason,
     permission |-> permission,
     risk |-> [level |-> risk_level,
               color |-> RiskColor(risk_level),
               reason |-> description]]

command_entry(name, description, permission, risk_level, risk_reason) ==
    [name |-> name,
     description |-> description,
     permission |-> permission,
     risk |-> [level |-> risk_level,
               color |-> RiskColor(risk_level),
               reason |-> risk_reason]]

\* The registry after `registry["commands"][name] = command_entry`.
WithCommand(registry, name, entry) ==
    DictSet(registry, "commands",
            DictSet(DictGet(registry, "commands", << >>), name, entry))

Raised(exc, f) == [result |-> [raised |-> exc], file |-> f]

\* add_command(...): the dict it returns (or the exception it raises) and
\* the registry file afterwards
add_command(f, name, description, permission, risk_level, risk_reason, io) ==
    IF ~ValidPermission(permission)
    THEN [result |-> [success |-> FALSE,
                      error |-> <<"Invalid permission", permission>>],
          file |-> f]
    ELSE IF ~ValidRiskLevel(risk_level)
    THEN [result |-> [success |-> FALSE,
                      error |-> <<"Invalid risk level", risk_level>>],
          file |-> f]
    ELSE LET loaded == load_registry(f)
         IN IF "exc" \in DOMAIN loaded THEN Raised(loaded.exc, f)
            \* registry.get on a value that is not a dict
            ELSE IF loaded.type # "dict" THEN Raised("AttributeError", f)
            ELSE LET registry == loaded.value
                 IN IF AlreadyExists(name, registry)
                    THEN [result |-> [success |-> FALSE,
                                      error |-> <<"already exists", name>>,
                                      existing |-> registry.commands[name]],
                          file |-> f]
                    ELSE LET entry == command_entry(name, description, permission,
                                                    risk_level, risk_reason)
                             saved == save_registry(
                                          WithCommand(registry, name, entry), f, io)
                         IN IF saved.ok
                            THEN [result |-> [success |-> TRUE,
                                              command |-> entry,
                                              message |-> <<"Successfully added", name>>],
                                  file |-> saved.file]
                            ELSE [result |-> [success |-> FALSE,
                                              error |-> <<"Failed to save registry">>],
                                  file |-> saved.file]

(***************************************************************************)
(* interactive_add                                                         *)
(***************************************************************************)
\* What a run prints when add_command was not called.
NoResult == [none |-> TRUE]

\* str.strip() on the lines the model feeds to input()
Strip(s) ==
    CASE s = " " -> ""
      [] s = " rm " -> "rm"
      [] s = "1 " -> "1"
      [] OTHER -> s

risk_map == ("1" :> "low") @@ ("2" :> "medium") @@ ("3" :> "high") @@ ("4" :> "critical")

\* interactive_add(): stdin holds the five answers, in the order asked
interactive_add(f, stdin, io) ==
    LET name == Strip(stdin[1])
        description == Strip(stdin[2])
        permission == IF Strip(stdin[3]) = "1" THEN "AlwaysAllow" ELSE "AlwaysAsk"
        risk_level == DictGet(risk_map, Strip(stdin[4]), "medium")
        reason == Strip(stdin[5])
        risk_reason == IF reason = "" THEN "No reason provided" ELSE reason
    IN IF name = "" THEN [result |-> NoResult, file |-> f]
       ELSE IF description = "" THEN [result |-> NoResult, file |-> f]
       ELSE add_command(f, name, description, permission, risk_level, risk_reason, io)

(***************************************************************************)
(* main                                                                    *)
(***************************************************************************)
Prog == "add_command.py"

\* The JSON documents the model passes after --json, with what json.loads
\* makes of each. Any other string is not JSON.
JsonTexts == {
    "{\"name\":\"ls\",\"description\":\"d1\",\"permission\":\"AlwaysAllow\",\"risk_level\":\"low\",\"risk_reason\":\"r1\"}",
    "{\"name\":\"rm\",\"description\":\"d1\",\"permission\":\"AlwaysAsk\",\"risk\":{\"level\":\"critical\",\"reason\":\"r1\"}}",
    "{\"name\":\"rm\",\"description\":\"d1\",\"permission\":\"AlwaysAsk\"}",
    "{\"name\":\"ls\",\"description\":\"d1\",\"permission\":\"Sometimes\",\"risk_level\":\"low\"}",
    "{\"name\":\"ls\",\"description\":\"d1\"}",
    "[]" }

json_loads(s) ==
    CASE s = "{\"name\":\"ls\",\"description\":\"d1\",\"permission\":\"AlwaysAllow\",\"risk_level\":\"low\",\"risk_reason\":\"r1\"}" ->
           Loaded([name |-> "ls", description |-> "d1", permission |-> "AlwaysAllow",
                   risk_level |-> "low", risk_reason |-> "r1"])
      [] s = "{\"name\":\"rm\",\"description\":\"d1\",\"permission\":\"AlwaysAsk\",\"risk\":{\"level\":\"critical\",\"reason\":\"r1\"}}" ->
           Loaded([name |-> "rm", description |-> "d1", permission |-> "AlwaysAsk",
                   risk |-> [level |-> "critical", reason |-> "r1"]])
      [] s = "{\"name\":\"rm\",\"description\":\"d1\",\"permission\":\"AlwaysAsk\"}" ->
           Loaded([name |-> "rm", description |-> "d1", permission |-> "AlwaysAsk"])
      [] s = "{\"name\":\"ls\",\"description\":\"d1\",\"permission\":\"Sometimes\",\"risk_level\":\"low\"}" ->
           Loaded([name |-> "ls", description |-> "d1", permission |-> "Sometimes",
                   risk_level |-> "low"])
      [] s = "{\"name\":\"ls\",\"description\":\"d1\"}" ->
           Loaded([name |-> "ls", description |-> "d1"])
      [] s = "[]" -> [type |-> "list", value |-> << >>]
      [] OTHER -> [exc |-> "JSONDecodeError"]

\* sys.argv[i]
Argv(argv, i) == argv[i + 1]

ExitMissingArgs_Zero == 1 - 1

\* sys.exit(1)
ExitMissingArgs == 1

Exit(code, f) == [exit |-> code, result |-> NoResult, file |-> f]

\* main returns (status 0), or an exception escapes it (traceback, status 1)
Finish(r) ==
    [exit |-> IF "raised" \in DOMAIN r.result THEN 1 ELSE 0,
     result |-> r.result,
     file |-> r.file]

\* main(): the exit status, what add_command returned (printed), and the file
main(f, argv, stdin, io) ==
    IF Len(argv) < 2 THEN Exit(ExitMissingArgs, f)
    ELSE IF Argv(argv, 1) = "--interactive" THEN Finish(interactive_add(f, stdin, io))
    ELSE IF Argv(argv, 1) = "--json"
    THEN IF Len(argv) < 3 THEN Exit(ExitMissingArgs, f)
         ELSE LET parsed == json_loads(Argv(argv, 2))
              IN IF "exc" \in DOMAIN parsed THEN Exit(1, f)
                 \* data["name"] on a list: TypeError, not caught
                 ELSE IF parsed.type # "dict" THEN Finish(Raised("TypeError", f))
                 ELSE LET data == parsed.value
                          risk == DictGet(data, "risk", << >>)
                      IN IF ~({"name", "description", "permission"} \subseteq DOMAIN data)
                         THEN Exit(1, f)
                         ELSE Finish(add_command(
                                  f, data.name, data.description, data.permission,
                                  DictGet(data, "risk_level",
                                          DictGet(risk, "level", "medium")),
                                  DictGet(data, "risk_reason",
                                          DictGet(risk, "reason", "No reason provided")),
                                  io))
    ELSE IF Len(argv) < 6 THEN Exit(ExitMissingArgs, f)
    ELSE Finish(add_command(f, Argv(argv, 1), Argv(argv, 2), Argv(argv, 3),
                            Argv(argv, 4), Argv(argv, 5), io))

(***************************************************************************)
(* Inputs of main                                                          *)
(***************************************************************************)
PositionalArgvs ==
    {<<Prog>> \o SubSeq(<<n, d, p, l, r>>, 1, k) :
        n \in Names, d \in Descriptions, p \in Permissions, l \in RiskLevels,
        r \in Reasons, k \in 0..5}

JsonArgvs == {<<Prog, "--json">>} \cup {<<Prog, "--json", s>> : s \in JsonTexts \cup {"{"}}

Stdins ==
    {<<n, d, p, l, r>> :
        n \in {"", " rm "}, d \in {" ", "d1"}, p \in {"1 ", "2", "x"},
        l \in {"1", "4", "9"}, r \in {"", "r1"}}

MainInputs ==
    {[argv |-> a, stdin |-> << >>] : a \in PositionalArgvs \cup JsonArgvs}
    \cup {[argv |-> <<Prog, "--interactive">>, stdin |-> s] : s \in Stdins}

(***************************************************************************)
(* State                                                                   *)
(***************************************************************************)
VARIABLES
    file,       \* the registry file at REGISTRY_PATH
    \* one invocation at a time
    pc,         \* "idle", "returned" (add_command) or "exited" (main)
    calls,      \* invocations so far
    call,       \* the arguments of the last invocation
    result,     \* what add_command returned or raised
    exit,       \* the exit status of main
    \* add_command and load_registry running concurrently
    wpc,        \* each writer's position in add_command
    wargs,      \* each writer's arguments
    wloaded,    \* the registry each writer loaded
    wregistry,  \* the registry each writer is saving
    wresult,    \* what each writer's add_command returned
    rpc,        \* the reader's position
    observed    \* what the reader's load_registry returned

seqvars == <<pc, calls, call, result, exit>>
concvars == <<wpc, wargs, wloaded, wregistry, wresult, rpc, observed>>
vars == <<file, pc, calls, call, result, exit,
          wpc, wargs, wloaded, wregistry, wresult, rpc, observed>>

NoCall == [op |-> "none"]

Writers == {"w1", "w2"}

SeqIdle ==
    /\ pc = "idle"
    /\ calls = 0
    /\ call = NoCall
    /\ result = NoResult
    /\ exit = 0

ConcIdle ==
    /\ wpc = [w \in Writers |-> "idle"]
    /\ wargs = [w \in Writers |-> NoCall]
    /\ wloaded = [w \in Writers |-> << >>]
    /\ wregistry = [w \in Writers |-> << >>]
    /\ wresult = [w \in Writers |-> NoResult]
    /\ rpc = "ready"
    /\ observed = NoResult

(***************************************************************************)
(* The sequential specification: one invocation at a time                  *)
(***************************************************************************)
InitFiles ==
    {Missing,
     FileOf(<< >>),
     FileOf(<<Garbage>>),
     FileOf(<<ArrayText>>),
     FileOf(<<BadBytes>>),
     FileOf(json_dump(DefaultRegistry)),
     FileOf(json_dump([version |-> "2.0.0"]))}

Init ==
    /\ file \in InitFiles
    /\ SeqIdle
    /\ ConcIdle

\* A caller invokes add_command(name, description, permission, risk_level,
\* risk_reason) and gets its result.
AddCommandCall ==
    /\ pc = "idle"
    /\ calls < MaxCalls
    /\ \E n \in Names, d \in Descriptions, p \in Permissions,
          l \in RiskLevels, r \in Reasons, io \in IOs :
          LET out == add_command(file, n, d, p, l, r, io)
          IN /\ call' = [op |-> "add_command", name |-> n, description |-> d,
                         permission |-> p, risk_level |-> l, risk_reason |-> r,
                         io |-> io]
             /\ result' = out.result
             /\ file' = out.file
    /\ pc' = "returned"
    /\ calls' = calls + 1
    /\ exit' = 0
    /\ UNCHANGED concvars

\* The script runs as a process, from its arguments to its exit.
MainRun ==
    /\ pc = "idle"
    /\ calls < MaxCalls
    /\ \E in \in MainInputs, io \in IOs :
          LET out == main(file, in.argv, in.stdin, io)
          IN /\ call' = [op |-> "main", argv |-> in.argv, stdin |-> in.stdin, io |-> io]
             /\ result' = out.result
             /\ file' = out.file
             /\ exit' = out.exit
    /\ pc' = "exited"
    /\ calls' = calls + 1
    /\ UNCHANGED concvars

\* The caller drops the result (the process is gone); the file stays.
Return ==
    /\ pc # "idle"
    /\ pc' = "idle"
    /\ call' = NoCall
    /\ result' = NoResult
    /\ exit' = 0
    /\ UNCHANGED <<file, calls>>
    /\ UNCHANGED concvars

Next == AddCommandCall \/ MainRun \/ Return

Spec == Init /\ [][Next]_vars

(***************************************************************************)
(* The concurrent specification: two add_command calls and a reader, each  *)
(* in its own process, on the same registry file. A process's steps are    *)
(* its system calls: the read of the file, the open for writing (which     *)
(* truncates), and the write of the buffered text when the file is closed. *)
(***************************************************************************)
ConcInitFiles ==
    {Missing,
     FileOf(json_dump(DefaultRegistry)),
     FileOf(json_dump(WithCommand(DefaultRegistry, "ls",
                command_entry("ls", "d1", "AlwaysAllow", "low", "r1"))))}

ConcPermissions == {"AlwaysAsk", "Sometimes"}
ConcRiskLevels == {"low", "extreme"}

ConcInit ==
    /\ file \in ConcInitFiles
    /\ SeqIdle
    /\ ConcIdle

\* write() on a descriptor at offset 0 of a file another process may have
\* written since the truncation: the bytes replace what is there, and what
\* lies beyond them stays.
Overlay(old, new) == new \o SubSeq(old, Len(new) + 1, Len(old))

WDone(w, r) ==
    /\ wresult' = [wresult EXCEPT ![w] = r]
    /\ wpc' = [wpc EXCEPT ![w] = "done"]

\* add_command is called: the two validations (lines 79-89)
WCall(w) ==
    /\ wpc[w] = "idle"
    /\ \E n \in Names, d \in Descriptions, p \in ConcPermissions,
          l \in ConcRiskLevels, r \in Reasons :
          /\ wargs' = [wargs EXCEPT ![w] =
                          [op |-> "add_command", name |-> n, description |-> d,
                           permission |-> p, risk_level |-> l, risk_reason |-> r]]
          /\ IF ~ValidPermission(p)
             THEN WDone(w, [success |-> FALSE,
                            error |-> <<"Invalid permission", p>>])
             ELSE IF ~ValidRiskLevel(l)
             THEN WDone(w, [success |-> FALSE,
                            error |-> <<"Invalid risk level", l>>])
             ELSE /\ wpc' = [wpc EXCEPT ![w] = "load"]
                  /\ UNCHANGED wresult
    /\ UNCHANGED <<file, wloaded, wregistry, rpc, observed>>
    /\ UNCHANGED seqvars

\* load_registry, the duplicate check and the new entry (lines 91-117)
WLoad(w) ==
    /\ wpc[w] = "load"
    /\ LET loaded == load_registry(file)
           a == wargs[w]
       IN IF "exc" \in DOMAIN loaded
          THEN WDone(w, [raised |-> loaded.exc]) /\ UNCHANGED <<wloaded, wregistry>>
          ELSE IF loaded.type # "dict"
          THEN WDone(w, [raised |-> "AttributeError"]) /\ UNCHANGED <<wloaded, wregistry>>
          ELSE IF AlreadyExists(a.name, loaded.value)
          THEN /\ WDone(w, [success |-> FALSE,
                            error |-> <<"already exists", a.name>>,
                            existing |-> loaded.value.commands[a.name]])
               /\ UNCHANGED <<wloaded, wregistry>>
          ELSE /\ wloaded' = [wloaded EXCEPT ![w] = loaded.value]
               /\ wregistry' = [wregistry EXCEPT ![w] =
                     WithCommand(loaded.value, a.name,
                                 command_entry(a.name, a.description, a.permission,
                                               a.risk_level, a.risk_reason))]
               /\ wpc' = [wpc EXCEPT ![w] = "save"]
               /\ UNCHANGED wresult
    /\ UNCHANGED <<file, wargs, rpc, observed>>
    /\ UNCHANGED seqvars

\* save_registry: open(path, "w") truncates the file, or fails (lines 57, 60-62)
WOpen(w) ==
    /\ wpc[w] = "save"
    /\ \/ /\ file' = FileOf(<< >>)
          /\ wpc' = [wpc EXCEPT ![w] = "write"]
          /\ UNCHANGED wresult
       \/ /\ WDone(w, [success |-> FALSE, error |-> <<"Failed to save registry">>])
          /\ UNCHANGED file
    /\ UNCHANGED <<wargs, wloaded, wregistry, rpc, observed>>
    /\ UNCHANGED seqvars

\* save_registry: json.dump and the close write the text, or a part of it
\* before an error; add_command returns (lines 58-62, 120-130)
WWrite(w) ==
    /\ wpc[w] = "write"
    /\ LET text == json_dump(wregistry[w])
           a == wargs[w]
       IN \/ /\ file' = FileOf(Overlay(file.text, text))
             /\ WDone(w, [success |-> TRUE,
                          command |-> wregistry[w].commands[a.name],
                          message |-> <<"Successfully added", a.name>>])
          \/ \E k \in 0..(Len(text) - 1) :
                /\ file' = FileOf(Overlay(file.text, SubSeq(text, 1, k)))
                /\ WDone(w, [success |-> FALSE,
                             error |-> <<"Failed to save registry">>])
    /\ UNCHANGED <<wargs, wloaded, wregistry, rpc, observed>>
    /\ UNCHANGED seqvars

\* Another process (an evaluation) calls load_registry.
ReaderLoad ==
    /\ rpc = "ready"
    /\ observed' = load_registry(file)
    /\ rpc' = "loaded"
    /\ UNCHANGED <<file, wpc, wargs, wloaded, wregistry, wresult>>
    /\ UNCHANGED seqvars

\* The reader is done with what it loaded and may load again.
ReaderDone ==
    /\ rpc = "loaded"
    /\ observed' = NoResult
    /\ rpc' = "ready"
    /\ UNCHANGED <<file, wpc, wargs, wloaded, wregistry, wresult>>
    /\ UNCHANGED seqvars

ConcNext ==
    \/ \E w \in Writers : WCall(w) \/ WLoad(w) \/ WOpen(w) \/ WWrite(w)
    \/ ReaderLoad
    \/ ReaderDone

SpecConc == ConcInit /\ [][ConcNext]_vars

(***************************************************************************)
(* Vocabulary of the properties                                            *)
(***************************************************************************)
PermissionEnum == {"AlwaysAllow", "AlwaysAsk"}
RiskLevelEnum == {"low", "medium", "high", "critical"}

\* The persisted registry: what a loader makes of the file.
Persisted(f) == load_registry(f)

\* The commands of the persisted registry (none when the file does not load
\* as a dict).
Commands(f) ==
    LET r == Persisted(f)
    IN IF "exc" \in DOMAIN r THEN << >>
       ELSE IF r.type # "dict" THEN << >>
       ELSE DictGet(r.value, "commands", << >>)

\* The file loads as a dict, so that add_command gets as far as its save.
LoadsAsDict(f) ==
    LET r == Persisted(f) IN "exc" \notin DOMAIN r /\ r.type = "dict"

\* The step is a call of add_command that returned or raised.
IsAddCommand == pc = "idle" /\ pc' = "returned"

ValidEnums(c) == c.permission \in PermissionEnum /\ c.risk_level \in RiskLevelEnum

Failed(r) == "success" \in DOMAIN r /\ r.success = FALSE

Succeeded(r) == "success" \in DOMAIN r /\ r.success = TRUE

(***************************************************************************)
(* C1                                                                      *)
(***************************************************************************)
\* C1: a call of add_command whose permission is not AlwaysAllow/AlwaysAsk or
\* whose risk_level is not low/medium/high/critical returns success=False
\* with an error, and leaves the registry file exactly as it was, whatever
\* the name and whatever the file held.
C1_InvalidEnumRejected ==
    [][(IsAddCommand /\ ~ValidEnums(call'))
         => /\ Failed(result')
            /\ "error" \in DOMAIN result'
            /\ file' = file]_vars

\* An invalid permission was rejected on a registry that already held a command.
C1_Witness ==
    /\ pc = "returned"
    /\ call.permission \notin PermissionEnum
    /\ call.risk_level \in RiskLevelEnum
    /\ Failed(result)
    /\ DOMAIN Commands(file) # {}
    /\ call.name \notin DOMAIN Commands(file)

(***************************************************************************)
(* C2                                                                      *)
(***************************************************************************)
\* C2: a call of add_command with valid permission and risk_level whose name
\* is already a key of the registry's commands returns success=False with
\* the existing entry, and the registry file is unchanged: the existing
\* entry is not overwritten by the new arguments.
C2_DuplicateRejected ==
    [][(IsAddCommand /\ ValidEnums(call') /\ call'.name \in DOMAIN Commands(file))
         => /\ Failed(result')
            /\ "existing" \in DOMAIN result'
            /\ result'.existing = Commands(file)[call'.name]
            /\ file' = file
            /\ Commands(file')[call'.name] = Commands(file)[call'.name]]_vars

\* A duplicate was rejected whose arguments differ from the existing entry.
C2_Witness ==
    /\ pc = "returned"
    /\ ValidEnums(call)
    /\ Failed(result)
    /\ "existing" \in DOMAIN result
    /\ result.existing.permission # call.permission
    /\ result.existing.risk.level # call.risk_level
    /\ Commands(file)[call.name] = result.existing

(***************************************************************************)
(* C3                                                                      *)
(***************************************************************************)
\* C3: a call of add_command with valid permission and risk_level, a name not
\* yet in the registry and a save that succeeds (the file loads, and the
\* file system lets the write through) returns success=True; the registry
\* file afterwards maps the name to an entry whose name, description,
\* permission, risk.level and risk.reason are the arguments, and the entry
\* returned is the entry persisted.
C3_AddedAndReturned ==
    [][(/\ IsAddCommand
        /\ ValidEnums(call')
        /\ LoadsAsDict(file)
        /\ call'.name \notin DOMAIN Commands(file)
        /\ call'.io.kind = "ok")
         => /\ Succeeded(result')
            /\ call'.name \in DOMAIN Commands(file')
            /\ LET e == Commands(file')[call'.name]
               IN /\ e.name = call'.name
                  /\ e.description = call'.description
                  /\ e.permission = call'.permission
                  /\ e.risk.level = call'.risk_level
                  /\ e.risk.reason = call'.risk_reason
                  /\ result'.command = e]_vars

\* A second command was added to a registry that held one.
C3_Witness ==
    /\ pc = "returned"
    /\ Succeeded(result)
    /\ call.io.kind = "ok"
    /\ Cardinality(DOMAIN Commands(file)) = 2
    /\ Commands(file)[call.name] = result.command

(***************************************************************************)
(* C4                                                                      *)
(***************************************************************************)
\* The registry file is missing, or what it holds is not a registry: it is
\* empty, not JSON, not decodable as text, or JSON that is not an object.
MissingOrMalformed(f) == ~f.exists \/ ~IsObjectText(f.text)

\* C4: whenever the registry file is missing or malformed, load_registry
\* returns a registry with no commands and never an error, and a call of
\* add_command on it completes with a result instead of raising.
C4_MalformedLoadsEmpty ==
    [][(IsAddCommand /\ MissingOrMalformed(file))
         => /\ LoadsAsDict(file)
            /\ DOMAIN Commands(file) = {}
            /\ "success" \in DOMAIN result']_vars

(***************************************************************************)
(* C6                                                                      *)
(***************************************************************************)
\* The arguments are missing: none at all, --json without a document, or
\* fewer than five positional arguments.
MissingArguments(argv) ==
    IF Len(argv) = 1 THEN TRUE
    ELSE IF argv[2] = "--json" THEN Len(argv) = 2
    ELSE IF argv[2] = "--interactive" THEN FALSE
    ELSE Len(argv) < 6

\* C6: main run with no arguments, with --json and no document, or with
\* fewer than five positional arguments exits with status 1 and does not
\* call add_command: nothing is returned and the registry file is unchanged.
C6_MissingArgumentsExit1 ==
    [][(pc = "idle" /\ pc' = "exited" /\ MissingArguments(call'.argv))
         => /\ exit' = 1
            /\ result' = NoResult
            /\ file' = file]_vars

\* main was run with four positional arguments on a registry holding a command.
C6_Witness ==
    /\ pc = "exited"
    /\ Len(call.argv) = 5
    /\ call.argv[2] \in Names
    /\ exit = 1
    /\ DOMAIN Commands(file) # {}

(***************************************************************************)
(* C7                                                                      *)
(***************************************************************************)
\* C7: over any sequence of add_command calls, successful or failed, a name
\* that is a key of the persisted registry stays a key with the same entry;
\* a successful call adds exactly one key and changes no other top-level
\* field.
C7_EntriesImmutable ==
    [][/\ \A n \in DOMAIN Commands(file) :
            /\ n \in DOMAIN Commands(file')
            /\ Commands(file')[n] = Commands(file)[n]
       /\ (IsAddCommand /\ Succeeded(result'))
            => /\ DOMAIN Commands(file') = DOMAIN Commands(file) \cup {call'.name}
               /\ call'.name \notin DOMAIN Commands(file)
               /\ \A k \in DOMAIN Persisted(file).value \ {"commands"} :
                     /\ k \in DOMAIN Persisted(file').value
                     /\ Persisted(file').value[k] = Persisted(file).value[k]]_vars

(***************************************************************************)
(* C8                                                                      *)
(***************************************************************************)
ColorOfLevel ==
    [low |-> "green", medium |-> "yellow", high |-> "red", critical |-> "red"]

\* C8: starting from an empty or missing registry, after any sequence of
\* add_command calls every entry of the persisted registry has a permission
\* in {AlwaysAllow, AlwaysAsk}, a risk.level in {low, medium, high,
\* critical}, a name equal to the key it is stored under, and the
\* risk.color of its level (green, yellow, red, red).
C8_EntriesWellFormed ==
    \A n \in DOMAIN Commands(file) :
        LET e == Commands(file)[n]
        IN /\ e.permission \in PermissionEnum
           /\ e.risk.level \in RiskLevelEnum
           /\ e.name = n
           /\ e.risk.color = ColorOfLevel[e.risk.level]

\* The registry holds two commands, one of them critical.
C8_Witness ==
    /\ Cardinality(DOMAIN Commands(file)) = 2
    /\ \E n \in DOMAIN Commands(file) : Commands(file)[n].risk.level = "critical"
    /\ \E n \in DOMAIN Commands(file) : Commands(file)[n].risk.level = "low"

(***************************************************************************)
(* C10                                                                     *)
(***************************************************************************)
\* C10: a call of add_command that returns success=False, the failed save
\* included, leaves the persisted registry as it was before the call.
C10_FailureChangesNothing ==
    [][(IsAddCommand /\ Failed(result')) => Persisted(file') = Persisted(file)]_vars

(***************************************************************************)
(* C5                                                                      *)
(***************************************************************************)
\* The writer has opened the file for writing and has not finished its save.
MidSave(w) == wpc[w] = "write"

\* C5: a load_registry that runs while an add_command is in progress on the
\* same registry returns the registry as it was before that add or as it is
\* after it, never an empty, truncated or otherwise intermediate one.
C5_ReaderSeesBeforeOrAfter ==
    [][(rpc = "ready" /\ rpc' = "loaded")
         => \A w \in Writers :
               MidSave(w) =>
                  observed' \in {Loaded(wloaded[w]), Loaded(wregistry[w])}]_vars

(***************************************************************************)
(* C9                                                                      *)
(***************************************************************************)
\* C9: when two add_command calls for two different names, both absent from
\* the registry and both with valid arguments, run interleaved and both
\* return success=True, the final persisted registry holds both names with
\* their entries.
C9_NoLostUpdate ==
    (/\ \A w \in Writers : wpc[w] = "done" /\ Succeeded(wresult[w])
     /\ wargs["w1"].name # wargs["w2"].name)
       => \A w \in Writers :
             /\ wargs[w].name \in DOMAIN Commands(file)
             /\ Commands(file)[wargs[w].name] = wresult[w].command

====
